---------------------------- MODULE Spec2Model ----------------------------
(***************************************************************************)
(* Model of the Productivity Copilot Dashboard: database.py (the SQLite    *)
(* history store) and app.py (the Streamlit script, which is run from top  *)
(* to bottom once per user interaction).                                   *)
(*                                                                         *)
(* Texts are sequences of fragments.  A fragment is one brace, a piece of  *)
(* text without braces, or one member of a JSON object written out.        *)
(***************************************************************************)
EXTENDS Integers, Sequences, FiniteSets, TLC

VARIABLES
    USE_MOCK_API,   \* app.py:15, fixed for the whole session
    api_key_ok,     \* whether st.secrets holds a key the model accepts
    session_init,   \* whether st.session_state holds 'tasks' and 'ai_summary'
    ai_summary,     \* st.session_state.ai_summary (a Python value)
    tasks,          \* st.session_state.tasks: sequence of [task, done]
    table,          \* history.db: whether table analyses exists
    rows,           \* history.db: the rows of analyses, in rowid order
    now,            \* the wall clock in seconds (CURRENT_TIMESTAMP)
    open_conns,     \* connections opened by a store operation and not closed by it
    run,            \* the latest script run: what triggered it and what it did
    op              \* the latest direct call of a database.py function

vars == <<USE_MOCK_API, api_key_ok, session_init, ai_summary, tasks, table, rows, now,
          open_conns, run, op>>

-----------------------------------------------------------------------------
(* Bounds of the model. *)

MaxRows == 2          \* rows the table may hold
MaxClock == 1         \* seconds the clock may advance
MaxOpenConns == 1     \* connections that may be left open
MaxJunkLen == 3       \* length of the replies built from braces and junk only

-----------------------------------------------------------------------------
(* Python values: str, list of str, None. *)

PyStr(s) == [type |-> "str", str |-> s, list |-> <<>>]
PyList(l) == [type |-> "list", str |-> "", list |-> l]
PyNone == [type |-> "NoneType", str |-> "", list |-> <<>>]

RECURSIVE SeqsUpTo(_, _)
SeqsUpTo(S, n) ==
    IF n = 0 THEN {<<>>}
    ELSE LET shorter == SeqsUpTo(S, n - 1)
         IN  shorter \cup {Append(s, x) : s \in shorter, x \in S}

Range(s) == {s[i] : i \in 1..Len(s)}

-----------------------------------------------------------------------------
(* json.dumps / json.loads of a task list, the value of column `tasks`. *)

Task(text, done) == [task |-> text, done |-> done]

json_dumps_bool(b) == IF b THEN "true" ELSE "false"

json_dumps_task(t) ==
    <<"{", "\"task\":", t.task, "\"done\":", json_dumps_bool(t.done), "}">>

RECURSIVE json_dumps(_)
json_dumps(ts) ==
    IF ts = <<>> THEN <<"[", "]">>
    ELSE LET front == json_dumps(SubSeq(ts, 1, Len(ts) - 1))
         IN  SubSeq(front, 1, Len(front) - 1) \o json_dumps_task(ts[Len(ts)]) \o <<"]">>

\* fragments of one serialized task object
TaskWidth == Len(json_dumps_task(Task("", FALSE)))

json_task_ok(text, i) ==
    /\ text[i] = "{"
    /\ text[i + 1] = "\"task\":"
    /\ text[i + 2] \notin {"{", "}", "[", "]", "\"task\":", "\"done\":"}
    /\ text[i + 3] = "\"done\":"
    /\ text[i + 4] \in {"true", "false"}
    /\ text[i + 5] = "}"

\* json.loads of a stored tasks value: [ok |-> FALSE] stands for JSONDecodeError.
json_loads_tasks(text) ==
    LET n == (Len(text) - 2) \div TaskWidth
        ok == /\ Len(text) >= 2
              /\ (Len(text) - 2) % TaskWidth = 0
              /\ text[1] = "["
              /\ text[Len(text)] = "]"
              /\ \A k \in 0..(n - 1) : json_task_ok(text, 2 + k * TaskWidth)
    IN  IF ok
        THEN [ok |-> TRUE,
              value |-> [k \in 1..n |->
                            Task(text[2 + (k - 1) * TaskWidth + 2],
                                 text[2 + (k - 1) * TaskWidth + 4] = "true")]]
        ELSE [ok |-> FALSE, value |-> <<>>]

-----------------------------------------------------------------------------
(* database.py.  A store operation takes the database db = [table, rows,    *)
(* open_conns] and returns [db, raised, result]; raised = "none" when the   *)
(* call returns normally.                                                   *)

DB == [table |-> table, rows |-> rows, open_conns |-> open_conns]

Returned(db, raised, result) == [db |-> db, raised |-> raised, result |-> result]

get_db_connection(db) == [db EXCEPT !.open_conns = @ + 1]

conn_close(db) == [db EXCEPT !.open_conns = @ - 1]

create_table(db) ==
    LET conn == get_db_connection(db)
    IN  Returned(conn_close([conn EXCEPT !.table = TRUE]), "none", <<>>)

Row(id, created_at, summary, tasks_json) ==
    [id |-> id, created_at |-> created_at, summary |-> summary, tasks |-> tasks_json]

insert_analysis(db, summary, ts, clock) ==
    LET tasks_json == json_dumps(ts)
        conn == get_db_connection(db)
    IN  IF ~db.table                            \* no such table: analyses
        THEN Returned(conn, "OperationalError", <<>>)
        ELSE IF summary.type = "NoneType"       \* summary TEXT NOT NULL
        THEN Returned(conn, "IntegrityError", <<>>)
        ELSE Returned(
                 conn_close([conn EXCEPT !.rows =
                     Append(@, Row(Len(@) + 1, clock, summary.str, tasks_json))]),
                 "none", <<>>)

\* ORDER BY created_at DESC: every ordering of the rows by descending
\* created_at; SQL leaves the order of rows with equal created_at open.
IsPermutation(f, n) == /\ \A i \in 1..n : f[i] \in 1..n
                       /\ \A i, j \in 1..n : i # j => f[i] # f[j]

order_by_created_at_desc(rs) ==
    LET n == Len(rs)
    IN  {[i \in 1..n |-> rs[f[i]]] :
            f \in {g \in [1..n -> 1..n] :
                     /\ IsPermutation(g, n)
                     /\ \A i, j \in 1..n :
                            i < j => rs[g[i]].created_at >= rs[g[j]].created_at}}

\* The results get_all_analyses may return: a set, one element per ordering.
get_all_analyses(db) ==
    LET conn == get_db_connection(db)
    IN  IF ~db.table                            \* no such table: analyses
        THEN {Returned(conn, "OperationalError", <<>>)}
        ELSE {Returned(conn_close(conn), "none", analyses) :
                 analyses \in order_by_created_at_desc(db.rows)}

-----------------------------------------------------------------------------
(* The reply of the model: fragments, and the JSON decoding of an object.   *)

SummaryShip == "\"summary\": \"Ship Friday.\""
SummaryEmpty == "\"summary\": \"\""
SummaryNull == "\"summary\": null"
ItemsTwo == "\"action_items\": [\"Alice writes docs.\", \"Bob tests.\"]"
ItemsEmpty == "\"action_items\": []"
ItemsNull == "\"action_items\": null"
NoteOk == "\"note\": \"ok\""

MemberFragments ==
    {SummaryShip, SummaryEmpty, SummaryNull, ItemsTwo, ItemsEmpty, ItemsNull, NoteOk}

MemberKey(frag) ==
    CASE frag \in {SummaryShip, SummaryEmpty, SummaryNull} -> "summary"
      [] frag \in {ItemsTwo, ItemsEmpty, ItemsNull} -> "action_items"
      [] frag = NoteOk -> "note"

MemberValue(frag) ==
    CASE frag = SummaryShip -> PyStr("Ship Friday.")
      [] frag = SummaryEmpty -> PyStr("")
      [] frag = ItemsTwo -> PyList(<<"Alice writes docs.", "Bob tests.">>)
      [] frag = ItemsEmpty -> PyList(<<>>)
      [] frag \in {SummaryNull, ItemsNull} -> PyNone
      [] frag = NoteOk -> PyStr("ok")

Positions(text, frag) == {i \in 1..Len(text) : text[i] = frag}

Min(S) == CHOOSE x \in S : \A y \in S : x <= y
Max(S) == CHOOSE x \in S : \A y \in S : x >= y

\* Variant with a non-greedy pattern, r'\{.*?\}': up to the first "}" after
\* the first "{".
clean_json_response_nongreedy(text) ==
    LET opens == Positions(text, "{")
        closes == {j \in Positions(text, "}") : opens # {} /\ j > Min(opens)}
    IN  IF closes # {}
        THEN [found |-> TRUE, text |-> SubSeq(text, Min(opens), Min(closes))]
        ELSE [found |-> FALSE, text |-> <<>>]

\* re.search(r'\{.*\}', text, re.DOTALL): the leftmost "{" that has a "}"
\* after it, up to the last "}"; found = FALSE stands for None.
clean_json_response(text) ==
    LET opens == Positions(text, "{")
        closes == Positions(text, "}")
    IN  IF opens # {} /\ closes # {} /\ Min(opens) < Max(closes)
        THEN [found |-> TRUE, text |-> SubSeq(text, Min(opens), Max(closes))]
        ELSE [found |-> FALSE, text |-> <<>>]

\* A dict is a function from its keys to Python values.
EmptyDict == [k \in {} |-> PyNone]

\* json.loads of an object: a later member replaces an earlier one with the
\* same key; [ok |-> FALSE] stands for JSONDecodeError.
json_loads(text) ==
    LET n == Len(text)
        ok == /\ n >= 2
              /\ text[1] = "{"
              /\ text[n] = "}"
              /\ \A i \in 2..(n - 1) : text[i] \in MemberFragments
        keys == {MemberKey(text[i]) : i \in 2..(n - 1)}
        last(k) == Max({i \in 2..(n - 1) : MemberKey(text[i]) = k})
    IN  IF ok
        THEN [ok |-> TRUE, value |-> [k \in keys |-> MemberValue(text[last(k)])]]
        ELSE [ok |-> FALSE, value |-> EmptyDict]

dict_get(d, key, default) == IF key \in DOMAIN d THEN d[key] ELSE default

\* ai_data: None or a dict.
NoData == [type |-> "NoneType", dict |-> EmptyDict]
Data(d) == [type |-> "dict", dict |-> d]

\* Python truth value of ai_data and of a str-or-None value.
truthy_data(ai_data) == ai_data.type = "dict" /\ DOMAIN ai_data.dict # {}
truthy_str(v) == v.type = "str" /\ v.str # ""

-----------------------------------------------------------------------------
(* app.py.  One run of the script carries a frame st from phase to phase:   *)
(* the session state, the database, what was shown (messages), which calls  *)
(* were made, which widgets were rendered, and the exception that left the  *)
(* script uncaught ("none" while it runs).                                  *)

Frame ==
    [session_init |-> session_init, ai_summary |-> ai_summary, tasks |-> tasks,
     db |-> DB, messages |-> {}, calls |-> {}, exception |-> "none",
     button |-> FALSE, checklist |-> FALSE]

Show(st, message) == [st EXCEPT !.messages = @ \cup {message}]

Raise(st, exception) == [st EXCEPT !.exception = exception]

\* The frame when a store operation has returned or raised r.
AfterCall(st, name, r) ==
    [st EXCEPT !.db = r.db, !.calls = @ \cup {name}, !.exception = r.raised]

\* line 24
startup(st) == AfterCall(st, "create_table", create_table(st.db))

\* lines 28-35: the failure is shown and the script goes on without `model`
configure(st, mock, key_ok) ==
    IF ~mock /\ ~key_ok THEN Show(st, "config_error") ELSE st

\* lines 38-41
init_session_state(st) ==
    IF st.session_init THEN st
    ELSE [st EXCEPT !.session_init = TRUE, !.tasks = <<>>, !.ai_summary = PyStr("")]

mock_response ==
    [k \in {"summary", "action_items"} |->
        IF k = "summary"
        THEN PyStr("The team discussed the Q4 product launch. Key decisions were made regarding the marketing budget and the final feature set. The main blocker is the pending design approval for the new logo.")
        ELSE PyList(<<"Finalize the Q4 marketing budget by EOD Friday.",
                      "Get final sign-off on the new logo design from management.",
                      "Schedule a follow-up meeting to review the launch timeline.",
                      "Update the project documentation with the agreed feature set.">>)]

\* What the API branch leaves: ai_data, the message shown, the calls made.
Api(ai_data, message, calls) ==
    [ai_data |-> ai_data, messages |-> {message}, calls |-> calls]

\* lines 62-76
mock_api == Api(Data(mock_response), "success_mock", {})

\* lines 90-94, with the cleaned text and its decoding
decode_reply(cleaned, parsed) ==
    IF ~cleaned.found
    THEN Api(NoData, "no_json", {"generate_content", "clean_json_response"})
    ELSE IF ~parsed.ok          \* JSONDecodeError, caught at line 95
    THEN Api(NoData, "api_error",
             {"generate_content", "clean_json_response", "json.loads"})
    ELSE Api(Data(parsed.value), "success",
             {"generate_content", "clean_json_response", "json.loads"})

\* Variant that falls back to the mock response when the call fails.
live_api_fallback(llm) ==
    IF llm.kind \in {"unconfigured", "raised"} THEN mock_api
    ELSE decode_reply(clean_json_response(llm.text),
                      json_loads(clean_json_response(llm.text).text))

\* lines 80-96.  llm.kind: "unconfigured" (`model` is not defined: NameError),
\* "raised" (generate_content raises) or "replied" (llm.text is response.text).
live_api(llm) ==
    IF llm.kind = "unconfigured" THEN Api(NoData, "api_error", {})
    ELSE IF llm.kind = "raised" THEN Api(NoData, "api_error", {"generate_content"})
    ELSE decode_reply(clean_json_response(llm.text),
                      json_loads(clean_json_response(llm.text).text))

\* line 103
persist(st, clock) ==
    AfterCall(st, "insert_analysis",
              insert_analysis(st.db, st.ai_summary, st.tasks, clock))

\* Variant that inserts before it replaces the session's task list.
set_tasks_persist_first(st, action_items_list, clock) ==
    IF action_items_list.type # "list"
    THEN Raise(st, "TypeError")
    ELSE [persist(st, clock) EXCEPT
             !.tasks = [i \in 1..Len(action_items_list.list) |->
                           Task(action_items_list.list[i], FALSE)]]

\* lines 101-103
set_tasks(st, action_items_list, clock) ==
    IF action_items_list.type # "list"     \* iterating None: TypeError
    THEN Raise(st, "TypeError")
    ELSE persist([st EXCEPT !.tasks = [i \in 1..Len(action_items_list.list) |->
                                          Task(action_items_list.list[i], FALSE)]],
                 clock)

\* lines 99-103
process_response(st, ai_data, clock) ==
    IF ~truthy_data(ai_data) THEN st
    ELSE set_tasks(
             [st EXCEPT !.ai_summary =
                 dict_get(ai_data.dict, "summary", PyStr("No summary provided."))],
             dict_get(ai_data.dict, "action_items", PyList(<<>>)), clock)

\* Variant without the test of line 57.
has_input_always(user_input) == TRUE

\* line 57: the truth value of user_input
has_input(user_input) == user_input # ""

\* lines 58-103, api being what the API branch left
analyze(st, api, clock) ==
    process_response([st EXCEPT !.messages = @ \cup api.messages,
                                !.calls = @ \cup api.calls],
                     api.ai_data, clock)

\* lines 56-105
button_handler(st, mock, pressed, user_input, llm, clock) ==
    IF ~pressed THEN [st EXCEPT !.button = TRUE]
    ELSE IF has_input(user_input)
    THEN analyze([st EXCEPT !.button = TRUE],
                 IF mock THEN mock_api ELSE live_api(llm), clock)
    ELSE Show([st EXCEPT !.button = TRUE], "warning")

\* lines 111-121, the rows of `history` being records
show_history(st, records) ==
    IF records = <<>> THEN Show(st, "no_history")
    ELSE IF \E i \in 1..Len(records) : ~json_loads_tasks(records[i].tasks).ok
    THEN Raise(st, "JSONDecodeError")
    ELSE Show(st, "history")

\* lines 110-121; r is what get_all_analyses returned or raised
history_display(st, r) ==
    IF r.raised # "none" THEN AfterCall(st, "get_all_analyses", r)
    ELSE show_history(AfterCall(st, "get_all_analyses", r), r.result)

\* Variant that writes the checklist back to the latest record, as a store
\* holding the session's list itself would.
main_area_writeback(st, toggle) ==
    IF st.tasks = <<>> /\ ~truthy_str(st.ai_summary)
    THEN Show(st, "get_started")
    ELSE LET ts == [i \in 1..Len(st.tasks) |->
                       IF i = toggle
                       THEN Task(st.tasks[i].task, ~st.tasks[i].done)
                       ELSE st.tasks[i]]
             n == Len(st.db.rows)
         IN  [st EXCEPT !.checklist = TRUE, !.tasks = ts,
                        !.db.rows = IF n = 0 THEN @
                                    ELSE [@ EXCEPT ![n].tasks = json_dumps(ts)]]

\* lines 124-148; toggle is the index of the checkbox the user clicked, or 0
main_area(st, toggle) ==
    IF st.tasks = <<>> /\ ~truthy_str(st.ai_summary)
    THEN Show(st, "get_started")
    ELSE [st EXCEPT !.checklist = TRUE,
                    !.tasks = [i \in 1..Len(st.tasks) |->
                                  IF i = toggle
                                  THEN Task(st.tasks[i].task, ~st.tasks[i].done)
                                  ELSE st.tasks[i]]]

\* An exception ends the run where it is raised.
Then(st, next) == IF st.exception # "none" THEN st ELSE next

\* The script down to line 106.
script_sidebar(st, mock, key_ok, pressed, user_input, llm, clock) ==
    Then(startup(st),
         button_handler(init_session_state(configure(startup(st), mock, key_ok)),
                        mock, pressed, user_input, llm, clock))

\* The history, then the main area.
history_then_main(d, toggle) == Then(d, main_area(d, toggle))

\* The script from line 107 on; r is what get_all_analyses returned or raised.
script_rest(st, r, toggle) ==
    Then(st, history_then_main(history_display(st, r), toggle))

-----------------------------------------------------------------------------
(* The inputs: what the user types and what the model replies.              *)

Notes == "We agreed to ship Friday. Alice will write docs."
UserInputs == {"", Notes}

\* Replies made of braces and prose only.
JunkFragments == {"{", "}", "Here you go:"}
JunkTexts == SeqsUpTo(JunkFragments, MaxJunkLen)

\* Replies holding one object: at most one member per key.
Optional(frags) == {<<>>} \cup {<<f>> : f \in frags}
ObjectBodies ==
    {s \o a : s \in Optional({SummaryShip, SummaryEmpty, SummaryNull}),
             a \in Optional({ItemsTwo, ItemsEmpty, ItemsNull})}
    \cup {<<NoteOk>>}
Bare(body) == <<"{">> \o body \o <<"}">>
Wrapped(body) == <<"Here you go:", "{">> \o body \o <<"}", "Hope this helps.">>
ObjectTexts == {Bare(b) : b \in ObjectBodies} \cup {Wrapped(b) : b \in ObjectBodies}

Replies == JunkTexts \cup ObjectTexts

LLM(kind, text) == [kind |-> kind, text |-> text]
NoCall == LLM("none", <<>>)
LLMOutcomes ==
    IF USE_MOCK_API THEN {NoCall}
    ELSE IF ~api_key_ok THEN {LLM("unconfigured", <<>>)}
    ELSE {LLM("raised", <<>>)} \cup {LLM("replied", t) : t \in Replies}

SummaryValues == {PyStr("Ship Friday."), PyStr(""), PyNone}
TaskLists ==
    {<<>>,
     <<Task("Alice writes docs.", FALSE)>>,
     <<Task("Alice writes docs.", TRUE), Task("Bob tests.", FALSE)>>}

-----------------------------------------------------------------------------
(* The state machine of the application. *)

NoRun == [trigger |-> "none", user_input |-> "", llm |-> NoCall,
          messages |-> {}, calls |-> {}, exception |-> "none",
          button |-> FALSE, checklist |-> FALSE]

NoOp == [name |-> "none", summary |-> PyNone, tasks |-> <<>>, raised |-> "none",
         result |-> <<>>, after_insert |-> FALSE]

Init ==
    /\ USE_MOCK_API \in BOOLEAN
    /\ api_key_ok \in BOOLEAN
    /\ session_init = FALSE
    /\ ai_summary = PyStr("")
    /\ tasks = <<>>
    /\ table = FALSE
    /\ rows = <<>>
    /\ now = 0
    /\ open_conns = 0
    /\ run = NoRun
    /\ op = NoOp

\* One run of the script, from line 1 to line 148 or to the exception.
RunScript(trigger, pressed, user_input, llm, toggle) ==
    \E c \in {script_sidebar(Frame, USE_MOCK_API, api_key_ok,
                             pressed, user_input, llm, now)} :
    \E r \in get_all_analyses(c.db) :
    \E e \in {script_rest(c, r, toggle)} :
        /\ Len(e.db.rows) <= MaxRows
        /\ e.db.open_conns <= MaxOpenConns
        /\ session_init' = e.session_init
        /\ ai_summary' = e.ai_summary
        /\ tasks' = e.tasks
        /\ table' = e.db.table
        /\ rows' = e.db.rows
        /\ open_conns' = e.db.open_conns
        /\ run' = [trigger |-> trigger, user_input |-> user_input, llm |-> llm,
                   messages |-> e.messages, calls |-> e.calls,
                   exception |-> e.exception, button |-> e.button,
                   checklist |-> e.checklist]
        /\ UNCHANGED <<USE_MOCK_API, api_key_ok, now, op>>

\* No script is running: the clicks are served one run at a time.
Idle == run.trigger \in {"none", "idle"}

\* The user opens or reloads the page.
OpenPage ==
    /\ Idle
    /\ RunScript("open", FALSE, "", NoCall, 0)

\* The user clicks "Analyze Text" (the button was rendered by the latest run).
AnalyzeText ==
    /\ Idle
    /\ run.button
    /\ \E user_input \in UserInputs :
           \E llm \in (IF user_input # "" THEN LLMOutcomes ELSE {NoCall}) :
               RunScript("analyze", TRUE, user_input, llm, 0)

\* The user clicks checkbox i of the checklist the latest run rendered.
ToggleTask ==
    /\ Idle
    /\ run.checklist
    /\ \E i \in 1..Len(tasks) : RunScript("toggle", FALSE, "", NoCall, i)

\* The run is over: its local variables and its outcome are gone, the widgets
\* it rendered stay on the page.
ScriptFinished ==
    /\ ~Idle
    /\ run' = [NoRun EXCEPT !.trigger = "idle", !.button = run.button,
                            !.checklist = run.checklist]
    /\ UNCHANGED <<USE_MOCK_API, api_key_ok, session_init, ai_summary, tasks, table,
                   rows, now, open_conns, op>>

\* A second passes.
Tick ==
    /\ now < MaxClock
    /\ now' = now + 1
    /\ UNCHANGED <<USE_MOCK_API, api_key_ok, session_init, ai_summary, tasks, table,
                   rows, open_conns, run, op>>

Next == OpenPage \/ AnalyzeText \/ ToggleTask \/ ScriptFinished \/ Tick

Spec == Init /\ [][Next]_vars

-----------------------------------------------------------------------------
(* The state machine of database.py alone: its three functions called in    *)
(* any order, with any summary and any task list.                           *)

InitStore == Init /\ USE_MOCK_API /\ ~api_key_ok

StoreStep(r, name, summary, ts) ==
    /\ Len(r.db.rows) <= MaxRows
    /\ r.db.open_conns <= MaxOpenConns
    /\ table' = r.db.table
    /\ rows' = r.db.rows
    /\ open_conns' = r.db.open_conns
    /\ op' = [name |-> name, summary |-> summary, tasks |-> ts, raised |-> r.raised,
              result |-> r.result,
              after_insert |-> /\ name = "get_all_analyses"
                               /\ op.name = "insert_analysis"
                               /\ op.raised = "none"]
    /\ UNCHANGED <<USE_MOCK_API, api_key_ok, session_init, ai_summary, tasks, now, run>>

CallCreateTable == StoreStep(create_table(DB), "create_table", PyNone, <<>>)

CallInsertAnalysis ==
    \E summary \in SummaryValues, ts \in TaskLists :
        StoreStep(insert_analysis(DB, summary, ts, now), "insert_analysis", summary, ts)

\* The call keeps the arguments of the insert it follows, for comparison.
CallGetAllAnalyses ==
    \E r \in get_all_analyses(DB) :
        StoreStep(r, "get_all_analyses", op.summary, op.tasks)

NextStore == CallCreateTable \/ CallInsertAnalysis \/ CallGetAllAnalyses \/ Tick

SpecStore == InitStore /\ [][NextStore]_vars

-----------------------------------------------------------------------------
(* Claims about database.py, checked under SpecStore. *)

\* The call of get_all_analyses that just returned normally.
Listed == op.name = "get_all_analyses" /\ op.raised = "none"

\* C1: insert_analysis(s, t) followed immediately by get_all_analyses() yields
\* a sequence whose first element has summary s and decoded tasks t, also when
\* the store already holds a record inserted within the same second.
C1_RoundTripFirst ==
    (Listed /\ op.after_insert) =>
        /\ op.result # <<>>
        /\ op.result[1].summary = op.summary.str
        /\ json_loads_tasks(op.result[1].tasks) = [ok |-> TRUE, value |-> op.tasks]

\* C2: after N inserts into an empty table get_all_analyses returns exactly N
\* records in strictly reverse insertion order, also when several inserts got
\* the same created_at; for N = 0 it returns the empty sequence.
C2_NewestFirst ==
    Listed =>
        /\ Len(op.result) = Len(rows)
        /\ \A i, j \in 1..Len(op.result) : i < j => op.result[i].id > op.result[j].id

\* C10: between store operations no connection is open: every operation
\* closes its connection on every path, the path where the statement raises
\* included.
C10_ConnectionsReleased == open_conns = 0

-----------------------------------------------------------------------------
(* Claims about the application, checked under Spec. *)

\* The latest run served a click on "Analyze Text"; it got a reply.
Analyzed == run.trigger = "analyze"
Replied == Analyzed /\ run.llm.kind = "replied"

\* The step is such a run, from the click to the end of the script.
Analyzing == Idle /\ Analyzed'
Replying == Idle /\ Replied'

SessionUnchanged == ai_summary' = ai_summary /\ tasks' = tasks
Undone(items) == [i \in 1..Len(items) |-> Task(items[i], FALSE)]

\* One record was appended, holding summary and the task list ts.
Persisted(summary, ts) ==
    /\ Len(rows') = Len(rows) + 1
    /\ SubSeq(rows', 1, Len(rows)) = rows
    /\ rows'[Len(rows')].summary = summary
    /\ json_loads_tasks(rows'[Len(rows')].tasks) = [ok |-> TRUE, value |-> ts]

\* C3: a record, once inserted, is never changed or removed by any later
\* operation (toggling a task, further analyses, create_table,
\* get_all_analyses): its tasks stay the snapshot taken at insertion.
C3_AppendOnly ==
    [][/\ Len(rows') >= Len(rows)
       /\ \A i \in 1..Len(rows) : rows'[i] = rows[i]]_vars

\* A task was toggled after its list was persisted as the second record, and
\* the record still holds the list with every task not done.
C3_Witness ==
    /\ Len(rows) = MaxRows
    /\ tasks # <<>>
    /\ \E k \in 1..Len(tasks) : tasks[k].done
    /\ json_loads_tasks(rows[Len(rows)].tasks).value =
           [i \in 1..Len(tasks) |-> Task(tasks[i].task, FALSE)]

\* C4: for every reply that is a JSON object with a summary string and an
\* action_items array (an empty array and an empty summary included), after the
\* Analyze action ai_summary is the reply's summary, tasks is one task per item
\* in the same order with every done flag false, and the store holds exactly
\* one more record, with that summary and that task list.
C4_SuccessfulAnalysis ==
    [][\A s \in {SummaryShip, SummaryEmpty}, a \in {ItemsTwo, ItemsEmpty} :
          (Replying /\ run'.llm.text \in {Bare(<<s, a>>), Wrapped(<<s, a>>)}) =>
              /\ ai_summary' = MemberValue(s)
              /\ tasks' = Undone(MemberValue(a).list)
              /\ Persisted(MemberValue(s).str, Undone(MemberValue(a).list))]_vars

\* The reply {"summary": "", "action_items": []} was analyzed when the store
\* already held a record.
C4_Witness ==
    /\ Replied
    /\ run.llm.text = Bare(<<SummaryEmpty, ItemsEmpty>>)
    /\ Len(rows) = MaxRows
    /\ ai_summary = PyStr("")
    /\ rows[Len(rows)].summary = ""

\* C5: Analyze with empty text shows a warning and makes no LLM call, no
\* parse and no insert; ai_summary, tasks and the stored records are unchanged.
C5_EmptyInputRejected ==
    [][(Analyzing /\ run'.user_input = "") =>
          /\ "warning" \in run'.messages
          /\ run'.calls \cap {"generate_content", "clean_json_response",
                              "json.loads", "insert_analysis"} = {}
          /\ SessionUnchanged
          /\ rows' = rows]_vars

\* Empty text was submitted when a summary, tasks and a record existed.
C5_Witness ==
    /\ Analyzed
    /\ run.user_input = ""
    /\ "warning" \in run.messages
    /\ tasks # <<>>
    /\ rows # <<>>

\* C6: in live mode, when the LLM call raises, an error message is shown,
\* ai_summary and tasks keep their values and no record is inserted.
C6_UpstreamFailure ==
    [][(Analyzing /\ run'.llm.kind \in {"raised", "unconfigured"}) =>
          /\ "api_error" \in run'.messages
          /\ "insert_analysis" \notin run'.calls
          /\ SessionUnchanged
          /\ rows' = rows]_vars

\* generate_content raised when a summary, tasks and a record existed.
C6_Witness ==
    /\ Analyzed
    /\ run.llm.kind = "raised"
    /\ "api_error" \in run.messages
    /\ tasks # <<>>
    /\ rows # <<>>

\* C7: no failure ends a run of the script with an uncaught exception: a
\* storage failure, a malformed stored tasks value or a malformed reply is
\* caught and turned into a message.
C7_NoUncaughtException == run.exception = "none"

\* The members of an object body, with the defaults for the absent keys.
HasKey(body, key) == \E i \in 1..Len(body) : MemberKey(body[i]) = key
ValueOr(body, key, default) ==
    IF HasKey(body, key)
    THEN MemberValue(body[CHOOSE i \in 1..Len(body) : MemberKey(body[i]) = key])
    ELSE default
WellTyped(body) == \A i \in 1..Len(body) : MemberValue(body[i]).type # "NoneType"

\* C8: for every reply that decodes to an object, an absent summary gives
\* "No summary provided." and an absent action_items gives the empty task
\* list, for every combination of absent keys, {} included, and the result is
\* applied to the session state and persisted.
C8_DefaultsForAbsentKeys ==
    [][\A body \in ObjectBodies :
          (/\ Replying
           /\ run'.llm.text = Bare(body)
           /\ WellTyped(body)
           /\ ~HasKey(body, "summary") \/ ~HasKey(body, "action_items")) =>
              LET summary == ValueOr(body, "summary", PyStr("No summary provided."))
                  items == ValueOr(body, "action_items", PyList(<<>>)).list
              IN  /\ ai_summary' = summary
                  /\ tasks' = Undone(items)
                  /\ Persisted(summary.str, Undone(items))]_vars

\* The braces of a reply: whether it has a "{", whether a "}" follows its
\* first "{", and the text from the first "{" to the last "}".
HasOpen(text) == Positions(text, "{") # {}
Enclosed(text) ==
    \E i, j \in 1..Len(text) : i < j /\ text[i] = "{" /\ text[j] = "}"
Between(text) == SubSeq(text, Min(Positions(text, "{")), Max(Positions(text, "}")))
ValidObject(text) == \E body \in ObjectBodies : text = Bare(body)

NotFoundShown ==
    /\ "no_json" \in run'.messages
    /\ "json.loads" \notin run'.calls
    /\ SessionUnchanged
    /\ rows' = rows
MalformedShown ==
    /\ "api_error" \in run'.messages
    /\ "no_json" \notin run'.messages
    /\ SessionUnchanged
    /\ rows' = rows

\* C9 as stated: the text from the first "{" to the last "}" is extracted; a
\* reply with no "{" gives NotFound (no parse, an error message, nothing
\* changed, nothing inserted); a reply that has a "{" but is not valid JSON
\* from the first "{" to the last "}" is reported as malformed, not as NotFound.
C9_AsStated ==
    [][Replying =>
          LET text == run'.llm.text
              valid == Enclosed(text) /\ ValidObject(Between(text))
          IN  /\ ~HasOpen(text) => NotFoundShown
              /\ (HasOpen(text) /\ ~valid) => MalformedShown
              /\ valid => "success" \in run'.messages]_vars

\* C9 as amended: NotFound is the answer for a reply with no "{" and also for
\* a reply with no "}" after its first "{"; a reply that has a "}" after its
\* first "{" is decoded from the first "{" to the last "}", and reported as
\* malformed, not as NotFound, when that text is not valid JSON.
C9_ExtractionAndNotFound ==
    [][Replying =>
          LET text == run'.llm.text
              valid == Enclosed(text) /\ ValidObject(Between(text))
          IN  /\ ~Enclosed(text) => NotFoundShown
              /\ Enclosed(text) => "json.loads" \in run'.calls
              /\ (Enclosed(text) /\ ~valid) => MalformedShown
              /\ valid => "success" \in run'.messages]_vars

\* A reply with braces around prose was reported as malformed when a summary,
\* tasks and a record existed.
C9_Witness ==
    /\ Replied
    /\ Enclosed(run.llm.text)
    /\ ~ValidObject(Between(run.llm.text))
    /\ "api_error" \in run.messages
    /\ tasks # <<>>
    /\ rows # <<>>

=============================================================================
